---- MODULE Spec2Model ----
(***************************************************************************)
(* Model of the TGA codec and the compositor of lab2cpp.                   *)
(*                                                                         *)
(* Four programs live in the repository:                                   *)
(*   "v1"  first program of src/unnamed/part_000   (lines 1-513)           *)
(*   "v2"  second program of src/unnamed/part_000  (lines 515-908)         *)
(*   "v3"  third program of src/unnamed/part_000   (lines 910-1288)        *)
(*   "p2"  src/project2.cpp                                                *)
(* Files are byte sequences; the decoders and encoders work on the bytes.  *)
(***************************************************************************)
EXTENDS Integers, Sequences, FiniteSets, TLC

VARIABLES variant, charSigned, inFile, pc, img, res, outFile, back, status, lastOp, opnds,
          luts_initialized,   \* Blend::luts_initialized of the first program
          lutsFilled          \* multiply_lut and screen_lut hold what init_luts stores
                              \* (FALSE: the zeros of static storage)

vars == <<variant, charSigned, inFile, pc, img, res, outFile, back, status, lastOp, opnds,
          luts_initialized, lutsFilled>>

----------------------------------------------------------------------------
(* Bounds of the model *)

MaxPixels == 4          \* images of the input domain have width*height <= MaxPixels
MaxIdLen  == 2          \* longest image-ID field of the ordinary input files
MaxDelta  == 300        \* largest |delta| handed to addToChannel
MaxFactor == 4          \* largest integer factor handed to scaleChannel / scaleChan
MaxCalls  == 2          \* longest sequence of compositor calls in one run

(* Program constants *)

HeaderSize      == 18   \* sizeof(Header), packed
PIXEL_SIZE      == 3
ORIGIN_TOP_LEFT == 32   \* 0x20

Variants == {"v1", "v2", "v3", "p2"}
Byte     == 0..255

\* the path names no file (no byte has this value)
NoFile  == << -1 >>
NoImage == [none |-> TRUE]

----------------------------------------------------------------------------
(* Integer helpers *)

Min(a, b) == IF a < b THEN a ELSE b
Max(a, b) == IF a > b THEN a ELSE b
Lo(v) == v % 256
Hi(v) == v \div 256
U16(lo, hi) == lo + 256 * hi
\* value of a 16-bit field read through a `short`
S16(v) == IF v >= 32768 THEN v - 65536 ELSE v
\* value of a byte read through a `char`: signed or unsigned by the build
CharVal(v, signed) == IF signed /\ v >= 128 THEN v - 256 ELSE v
\* bit 0x20 of a byte
HasBit20(v) == (v \div 32) % 2 = 1

----------------------------------------------------------------------------
(* The packed 18-byte header *)

ParseHeader(hb) ==
    [ idLength        |-> hb[1],
      colorMapType    |-> hb[2],
      dataTypeCode    |-> hb[3],
      colorMapOrigin  |-> U16(hb[4], hb[5]),
      colorMapLength  |-> U16(hb[6], hb[7]),
      colorMapDepth   |-> hb[8],
      xOrigin         |-> U16(hb[9], hb[10]),
      yOrigin         |-> U16(hb[11], hb[12]),
      width           |-> U16(hb[13], hb[14]),
      height          |-> U16(hb[15], hb[16]),
      bitsPerPixel    |-> hb[17],
      imageDescriptor |-> hb[18] ]

HeaderBytes(h) ==
    << h.idLength, h.colorMapType, h.dataTypeCode,
       Lo(h.colorMapOrigin), Hi(h.colorMapOrigin),
       Lo(h.colorMapLength), Hi(h.colorMapLength),
       h.colorMapDepth,
       Lo(h.xOrigin), Hi(h.xOrigin), Lo(h.yOrigin), Hi(h.yOrigin),
       Lo(h.width), Hi(h.width), Lo(h.height), Hi(h.height),
       h.bitsPerPixel, h.imageDescriptor >>

ZeroHeader == ParseHeader([i \in 1..HeaderSize |-> 0])

\* file.read(&hdr, sizeof hdr): the bytes the file has are stored, the rest of
\* the struct keeps what it held before (fill)
ReadHeader(f, fill) ==
    ParseHeader([i \in 1..HeaderSize |-> IF i <= Len(f) THEN f[i] ELSE fill])

\* the stream is good after the header read
HeaderComplete(f) == Len(f) >= HeaderSize

\* file.read(dst, n) at offset pos (0-based) of a good stream
CanRead(f, pos, n) == pos >= 0 /\ (n = 0 \/ pos + n <= Len(f))
ReadAt(f, pos, n) == [i \in 1..n |-> f[pos + i]]

----------------------------------------------------------------------------
(* part_000, first program: Image, TGA::load, TGA::save *)

\* Image::px(x, y), bottom-left origin: offset (0-based) of the pixel's B sample
pxV1(im, x, y) == (y * im.width + x) * PIXEL_SIZE

\* the three samples Image::px(x, y) points at
Samples(im, off) == << im.pixels[off + 1], im.pixels[off + 2], im.pixels[off + 3] >>

\* img.width * img.height is an int product of two promoted uint16_t values
IntProductOverflows(w, h) == w # 0 /\ h > 2147483647 \div w

\* bug variant: the whole pixel sequence reversed, not the scanlines
FlipRows_perPixel(pixels, w, h) ==
    [i \in 1..Len(pixels) |->
        LET p == (i - 1) \div PIXEL_SIZE
            c == (i - 1) % PIXEL_SIZE
        IN  pixels[(w * h - 1 - p) * PIXEL_SIZE + c + 1]]

\* row-by-row memcpy of the top-left conversion loop
FlipRows(pixels, w, h) ==
    LET rowBytes == w * PIXEL_SIZE
    IN  [i \in 1..Len(pixels) |->
            LET y == (i - 1) \div rowBytes
                k == (i - 1) % rowBytes
            IN  pixels[(h - 1 - y) * rowBytes + k + 1]]

Failure(e) == [err |-> e, img |-> NoImage]
Success(im) == [err |-> "none", img |-> im]

\* The part of TGA::load after the header checks: skip the ID field, size the
\* buffer, read the payload, normalise the orientation.  The result is the set
\* of outcomes the build can produce (one outcome unless the int product
\* overflows, which is undefined).
LoadBody(f, hdr) ==
    IF IntProductOverflows(hdr.width, hdr.height)
    THEN {Failure("alloc"), Failure("trunc")}
    ELSE
      LET n   == hdr.width * hdr.height * PIXEL_SIZE
          pos == HeaderSize + hdr.idLength
      IN  IF ~HeaderComplete(f) \/ ~CanRead(f, pos, n)
          THEN {Failure("trunc")}
          ELSE LET raw == ReadAt(f, pos, n)
               IN  {Success([width  |-> hdr.width,
                             height |-> hdr.height,
                             pixels |-> IF HasBit20(hdr.imageDescriptor)
                                        THEN FlipRows(raw, hdr.width, hdr.height)
                                        ELSE raw])}

\* bug variant: the colour-map check left out
loadV1_noCMapCheck(f) ==
    IF f = NoFile THEN {Failure("open")}
    ELSE LET hdr == ReadHeader(f, 0)
         IN  IF hdr.dataTypeCode # 2 THEN {Failure("dtype")}
             ELSE IF hdr.bitsPerPixel # 24 THEN {Failure("bpp")}
             ELSE LoadBody(f, hdr)

loadV1(f) ==
    IF f = NoFile THEN {Failure("open")}
    ELSE LET hdr == ReadHeader(f, 0)
         IN  IF hdr.colorMapType # 0 THEN {Failure("cmap")}
             ELSE IF hdr.dataTypeCode # 2 THEN {Failure("dtype")}
             ELSE IF hdr.bitsPerPixel # 24 THEN {Failure("bpp")}
             ELSE LoadBody(f, hdr)

SaveHeader(im, descriptor) ==
    [ZeroHeader EXCEPT !.dataTypeCode = 2, !.width = im.width, !.height = im.height,
                       !.bitsPerPixel = 24, !.imageDescriptor = descriptor]

\* the rows written by the save loop: row y of the file is memory row y, or
\* memory row height-1-y when the loop runs top row first
RowsInOrder(im, topFirst) ==
    LET rowBytes == im.width * PIXEL_SIZE
    IN  [i \in 1..(im.height * rowBytes) |->
            LET y == (i - 1) \div rowBytes
                k == (i - 1) % rowBytes
                r == IF topFirst THEN im.height - 1 - y ELSE y
            IN  im.pixels[r * rowBytes + k + 1]]

\* bug variant: the scanlines written top row first under a bottom-left header
saveV1_rowsReversed(im) ==
    HeaderBytes(SaveHeader(im, 0)) \o RowsInOrder(im, TRUE)

\* bug variant: the header written with the top-left bit set
saveV1_topLeftHeader(im) ==
    HeaderBytes(SaveHeader(im, ORIGIN_TOP_LEFT)) \o RowsInOrder(im, FALSE)

saveV1(im) ==
    HeaderBytes(SaveHeader(im, 0)) \o RowsInOrder(im, FALSE)

----------------------------------------------------------------------------
(* part_000, second program *)

\* Image::px(x, y) of the second and third program
pxV2(im, x, y) == ((im.height - 1 - y) * im.width + x) * PIXEL_SIZE

loadV2(f) ==
    IF f = NoFile THEN {Failure("open")}
    ELSE LET hdr == ReadHeader(f, 0)
         IN  IF hdr.dataTypeCode # 2 THEN {Failure("dtype")}
             ELSE IF hdr.bitsPerPixel # 24 THEN {Failure("bpp")}
             ELSE LoadBody(f, hdr)

saveV2(im) ==
    HeaderBytes(SaveHeader(im, 0)) \o RowsInOrder(im, TRUE)

----------------------------------------------------------------------------
(* part_000, third program *)

\* what the bytes of an uninitialised Header may hold where the file ends early
GarbageBytes == {0, 2, 24, 255}

loadV3(f) ==
    IF f = NoFile THEN {Failure("open")}
    ELSE UNION { LET hdr == ReadHeader(f, fill)
                 IN  IF hdr.dataTypeCode # 2 THEN {Failure("dtype")}
                     ELSE IF hdr.bitsPerPixel # 24 THEN {Failure("bpp")}
                     ELSE LoadBody(f, hdr)
                 : fill \in (IF HeaderComplete(f) THEN {0} ELSE GarbageBytes) }

saveV3(im) ==
    HeaderBytes(SaveHeader(im, ORIGIN_TOP_LEFT)) \o im.pixels

----------------------------------------------------------------------------
(* project2.cpp: Img, readTGA, writeTGA *)

\* the bytes read into the vector<Pixel>, as {b, g, r} structs
ToPixels(bytes) ==
    [p \in 1..(Len(bytes) \div 3) |-> << bytes[3*p - 2], bytes[3*p - 1], bytes[3*p] >>]

FromPixels(px) ==
    [i \in 1..(3 * Len(px)) |-> px[((i - 1) \div 3) + 1][((i - 1) % 3) + 1]]

readTGA(f, signed) ==
    IF f = NoFile THEN {Failure("open")}
    ELSE IF ~HeaderComplete(f) THEN {Failure("badheader")}
    ELSE
      LET h == ReadHeader(f, 0)
      IN  IF CharVal(h.bitsPerPixel, signed) # 24 \/ CharVal(h.dataTypeCode, signed) # 2
          THEN {Failure("format")}
          ELSE
            \* (size_t)width * (size_t)height, each short sign-extended; the
            \* product modulo 2^64 is the signed product when that is >= 0 and
            \* above the vector's max_size otherwise
            LET count == S16(h.width) * S16(h.height)
                id    == CharVal(h.idLength, signed)
                pos   == HeaderSize + id
            IN  IF count < 0 THEN {Failure("alloc")}
                ELSE IF ~CanRead(f, pos, count * 3) THEN {Failure("trunc")}
                ELSE {Success([h |-> h, px |-> ToPixels(ReadAt(f, pos, count * 3))])}

writeTGA(im) == HeaderBytes(im.h) \o FromPixels(im.px)

----------------------------------------------------------------------------
(* part_000, first program: Blend *)

clampByte(v) == IF v < 0 THEN 0 ELSE IF v > 255 THEN 255 ELSE v

\* the conversion of an int to uint8_t
ToU8(v) == v % 256

\* bug variant: the product divided without the rounding term
mul255_trunc(a, b) == ToU8((a * b) \div 255)

\* bug variant: the screen with a truncated quotient
scr255_trunc(a, b) == ToU8(255 - ((255 - a) * (255 - b)) \div 255)

mul255_round(a, b) == ToU8((a * b + 127) \div 255)
scr255_round(a, b) == ToU8(255 - ((255 - a) * (255 - b) + 127) \div 255)

\* bug variant: the flag set without the tables being filled
init_luts_flagOnly == [initialized |-> TRUE, filled |-> lutsFilled]

\* what the tables hold once init_luts has returned: a call with
\* luts_initialized set returns at once, any other call fills both tables
init_luts == [initialized |-> TRUE,
              filled      |-> IF luts_initialized THEN lutsFilled ELSE TRUE]

\* the entries as blendPixel reads them: MULTIPLY and SCREEN, the two modes
\* that read a table, call init_luts first when luts_initialized is false
multiply_lut(a, b) == IF init_luts.filled THEN mul255_round(a, b) ELSE 0
screen_lut(a, b)   == IF init_luts.filled THEN scr255_round(a, b) ELSE 0

\* bug variant: the sum of ADD stored without the clip at 255
blendChannelV1_addWraps(m, a, b) ==
    CASE m = "ADD"      -> ToU8(a + b)
      [] m = "SUBTRACT" -> ToU8(IF a > b THEN a - b ELSE 0)
      [] m = "MULTIPLY" -> multiply_lut(a, b)
      [] m = "SCREEN"   -> screen_lut(a, b)
      [] m = "OVERLAY"  -> LET low  == mul255_round(2 * a, b)
                               high == 255 - mul255_round(2 * (255 - a), 255 - b)
                           IN  ToU8(IF a < 128 THEN low ELSE high)

\* bug variant: the branch of OVERLAY chosen by the overlay sample
blendChannelV1_overlayByTop(m, a, b) ==
    CASE m = "ADD"      -> LET s == a + b IN ToU8(IF s > 255 THEN 255 ELSE s)
      [] m = "SUBTRACT" -> ToU8(IF a > b THEN a - b ELSE 0)
      [] m = "MULTIPLY" -> multiply_lut(a, b)
      [] m = "SCREEN"   -> screen_lut(a, b)
      [] m = "OVERLAY"  -> LET low  == mul255_round(2 * a, b)
                               high == 255 - mul255_round(2 * (255 - a), 255 - b)
                           IN  ToU8(IF b < 128 THEN low ELSE high)

\* one channel of Blend::blendPixel; a is the sample of the first pointer
\* (the base), b the sample of the second (the overlay)
blendChannelV1(m, a, b) ==
    CASE m = "ADD"      -> LET s == a + b IN ToU8(IF s > 255 THEN 255 ELSE s)
      [] m = "SUBTRACT" -> ToU8(IF a > b THEN a - b ELSE 0)
      [] m = "MULTIPLY" -> multiply_lut(a, b)
      [] m = "SCREEN"   -> screen_lut(a, b)
      [] m = "OVERLAY"  -> LET low  == mul255_round(2 * a, b)
                               high == 255 - mul255_round(2 * (255 - a), 255 - b)
                           IN  ToU8(IF a < 128 THEN low ELSE high)

blendPixelV1(m, a, b) == [i \in 1..PIXEL_SIZE |-> blendChannelV1(m, a[i], b[i])]

SizeMismatch(x, y) == x.width # y.width \/ x.height # y.height

NoResult == << >>
OpFailure(e) == [err |-> e, out |-> NoResult]
OpSuccess(outs) == [err |-> "none", out |-> outs]

PixelAt(pixels, p) == << pixels[3*p - 2], pixels[3*p - 1], pixels[3*p] >>

\* Blend::apply of the first program
applyV1(bot, top, m) ==
    IF SizeMismatch(bot, top) THEN OpFailure("mismatch")
    ELSE OpSuccess(<< [width  |-> bot.width,
                       height |-> bot.height,
                       pixels |-> [i \in 1..(bot.width * bot.height * PIXEL_SIZE) |->
                            LET p == ((i - 1) \div PIXEL_SIZE) + 1
                                c == ((i - 1) % PIXEL_SIZE) + 1
                            IN  blendPixelV1(m, PixelAt(bot.pixels, p), PixelAt(top.pixels, p))[c]]] >>)

SizeMismatch3(r, g, b) ==
    r.width # g.width \/ r.width # b.width \/ r.height # g.height \/ r.height # b.height

\* bug variant: the red and the blue sample of the output exchanged
CombinePixels_swapped(r, g, b) ==
    [width  |-> r.width,
     height |-> r.height,
     pixels |-> [i \in 1..(r.width * r.height * PIXEL_SIZE) |->
                    LET base == i - ((i - 1) % PIXEL_SIZE)
                        c    == (i - 1) % PIXEL_SIZE
                    IN  CASE c = 2 -> b.pixels[base]
                          [] c = 1 -> g.pixels[base]
                          [] c = 0 -> r.pixels[base]]]

\* the loop of combineRGB
CombinePixels(r, g, b) ==
    [width  |-> r.width,
     height |-> r.height,
     pixels |-> [i \in 1..(r.width * r.height * PIXEL_SIZE) |->
                    LET base == i - ((i - 1) % PIXEL_SIZE)
                        c    == (i - 1) % PIXEL_SIZE
                    IN  CASE c = 2 -> r.pixels[base]
                          [] c = 1 -> g.pixels[base]
                          [] c = 0 -> b.pixels[base]]]

\* bug variant: a size mismatch is not reported and an output is produced
combineRGB_unchecked(r, g, b) ==
    IF SizeMismatch3(r, g, b) THEN OpSuccess(<< r >>)
    ELSE OpSuccess(<< CombinePixels(r, g, b) >>)

\* combineRGB of the first and of the second program
combineRGB(r, g, b) ==
    IF SizeMismatch3(r, g, b) THEN OpFailure("mismatch")
    ELSE OpSuccess(<< CombinePixels(r, g, b) >>)

\* bug variant: the byte sequence reversed byte by byte
rotate180_byteReversed(src) ==
    OpSuccess(<< [width  |-> src.width,
                  height |-> src.height,
                  pixels |-> [i \in 1..Len(src.pixels) |->
                                src.pixels[Len(src.pixels) + 1 - i]]] >>)

\* bug variant: the pixels moved round by one place instead of reversed
rotate180_shifted(src) ==
    OpSuccess(<< [width  |-> src.width,
                  height |-> src.height,
                  pixels |-> [i \in 1..Len(src.pixels) |->
                                src.pixels[((i + PIXEL_SIZE - 1) % Len(src.pixels)) + 1]]] >>)

\* bug variant: the output sized with width and height exchanged
rotate180_transposed(src) ==
    OpSuccess(<< [width  |-> src.height,
                  height |-> src.width,
                  pixels |-> [i \in 1..Len(src.pixels) |->
                        LET pix == src.width * src.height
                            p   == (i - 1) \div PIXEL_SIZE
                            c   == (i - 1) % PIXEL_SIZE
                            q   == pix - 1 - p
                        IN  src.pixels[q * PIXEL_SIZE + c + 1]]] >>)

rotate180(src) ==
    OpSuccess(<< [width  |-> src.width,
                  height |-> src.height,
                  pixels |-> [i \in 1..Len(src.pixels) |->
                        LET pix == src.width * src.height
                            p   == (i - 1) \div PIXEL_SIZE
                            c   == (i - 1) % PIXEL_SIZE
                            q   == pix - 1 - p
                        IN  src.pixels[q * PIXEL_SIZE + c + 1]]] >>)

\* bug variant: each output keeps its channel in place and zeroes the others
splitRGB_isolating(src) ==
    LET chan(off) == [width  |-> src.width,
                      height |-> src.height,
                      pixels |-> [i \in 1..Len(src.pixels) |->
                                    IF (i - 1) % PIXEL_SIZE = off THEN src.pixels[i] ELSE 0]]
    IN  OpSuccess(<< chan(2), chan(1), chan(0) >>)

splitRGB(src) ==
    LET chan(off) == [width  |-> src.width,
                      height |-> src.height,
                      pixels |-> [i \in 1..Len(src.pixels) |->
                                    src.pixels[i - ((i - 1) % PIXEL_SIZE) + off]]]
    IN  OpSuccess(<< chan(2), chan(1), chan(0) >>)

\* bug variant: the sum stored in the byte without the clamp
addToChannel_wraps(im, idx, delta) ==
    [im EXCEPT !.pixels = [i \in 1..Len(im.pixels) |->
        IF (i - 1) % PIXEL_SIZE = idx THEN ToU8(im.pixels[i] + delta) ELSE im.pixels[i]]]

\* addToChannel of the first and of the second program (in place)
addToChannel(im, idx, delta) ==
    [im EXCEPT !.pixels = [i \in 1..Len(im.pixels) |->
        IF (i - 1) % PIXEL_SIZE = idx THEN ToU8(clampByte(im.pixels[i] + delta))
        ELSE im.pixels[i]]]

\* bug variant: the product converted without the rounding term
ScaledToInt_truncated(old, f) ==
    LET n == old * f[1]
    IN  IF n >= 0 THEN n \div f[2] ELSE -((-n) \div f[2])

\* a float factor f[1] / f[2], f[2] a power of two
\* static_cast<int>(old * f + 0.5f): the product and the sum are exact in a
\* float for these factors (both are multiples of 1/(2*f[2]) below 2^24), and
\* the conversion to int drops the fraction, toward zero
ScaledToInt(old, f) ==
    LET n == 2 * old * f[1] + f[2]
        d == 2 * f[2]
    IN  IF n >= 0 THEN n \div d ELSE -((-n) \div d)

\* scaleChannel of the first and of the second program (in place)
scaleChannel(im, idx, f) ==
    [im EXCEPT !.pixels = [i \in 1..Len(im.pixels) |->
        IF (i - 1) % PIXEL_SIZE = idx THEN ToU8(clampByte(ScaledToInt(im.pixels[i], f)))
        ELSE im.pixels[i]]]

----------------------------------------------------------------------------
(* part_000, second program: Blend *)

blendChannelV2(m, a, b) ==
    CASE m = "ADD"      -> LET s == a + b IN ToU8(IF s > 255 THEN 255 ELSE s)
      [] m = "SUBTRACT" -> ToU8(IF a > b THEN a - b ELSE 0)
      [] m = "MULTIPLY" -> ToU8((a * b) \div 255)
      [] m = "SCREEN"   -> ToU8(255 - ((255 - a) * (255 - b)) \div 255)
      [] m = "OVERLAY"  -> ToU8(IF a < 128 THEN (2 * a * b) \div 255
                                ELSE 255 - (2 * (255 - a) * (255 - b)) \div 255)

blendPixelV2(m, a, b) == [i \in 1..PIXEL_SIZE |-> blendChannelV2(m, a[i], b[i])]

\* Blend::apply of the second program
applyV2(bot, top, m) ==
    IF SizeMismatch(bot, top) THEN OpFailure("mismatch")
    ELSE OpSuccess(<< [width  |-> bot.width,
                       height |-> bot.height,
                       pixels |-> [i \in 1..(bot.width * bot.height * PIXEL_SIZE) |->
                            LET p == ((i - 1) \div PIXEL_SIZE) + 1
                                c == ((i - 1) % PIXEL_SIZE) + 1
                            IN  blendPixelV2(m, PixelAt(bot.pixels, p), PixelAt(top.pixels, p))[c]]] >>)

----------------------------------------------------------------------------
(* project2.cpp: blend, pickChannel, combineRGB, rot180 *)

CLAMP(v) == IF v < 0 THEN 0 ELSE IF v > 255 THEN 255 ELSE v
c255(v) == ToU8(CLAMP(v))

cloneLike(ref) == [h |-> ref.h, px |-> [i \in 1..Len(ref.px) |-> <<0, 0, 0>>]]

\* f2uc applied to the product of the sample p and the factor s
f2uc(p, s) == ToU8(CLAMP(ScaledToInt(p, s)))

\* scaleChan (in place): every channel of every pixel, each by its own factor
scaleChan(im, sr, sg, sb) ==
    [im EXCEPT !.px = [i \in 1..Len(im.px) |->
        << f2uc(im.px[i][1], sb), f2uc(im.px[i][2], sg), f2uc(im.px[i][3], sr) >>]]

\* bug variant: SUBTR computed as top minus bottom
blendChannelP2_subReversed(m, A, B) ==
    CASE m = "MULTI"   -> c255((A * B) \div 255)
      [] m = "SUBTR"   -> c255(A - B)
      [] m = "SCREEN"  -> c255(255 - ((255 - A) * (255 - B)) \div 255)
      [] m = "OVERLAY" -> c255(IF B < 128 THEN (2 * A * B) \div 255
                               ELSE 255 - (2 * (255 - A) * (255 - B)) \div 255)

\* one channel of the switch in blend; A is the top sample, B the bottom one
blendChannelP2(m, A, B) ==
    CASE m = "MULTI"   -> c255((A * B) \div 255)
      [] m = "SUBTR"   -> c255(B - A)
      [] m = "SCREEN"  -> c255(255 - ((255 - A) * (255 - B)) \div 255)
      [] m = "OVERLAY" -> c255(IF B < 128 THEN (2 * A * B) \div 255
                               ELSE 255 - (2 * (255 - A) * (255 - B)) \div 255)

SizeMismatchP2(x, y) ==
    S16(x.h.width) # S16(y.h.width) \/ S16(x.h.height) # S16(y.h.height)

blend(top, bottom, m) ==
    IF SizeMismatchP2(top, bottom) THEN OpFailure("mismatch")
    ELSE OpSuccess(<< [cloneLike(top) EXCEPT !.px =
            [i \in 1..Len(top.px) |->
                [c \in 1..3 |-> blendChannelP2(m, top.px[i][c], bottom.px[i][c])]]] >>)

pickChannel(src, which) ==
    OpSuccess(<< [cloneLike(src) EXCEPT !.px =
            [i \in 1..Len(src.px) |->
                LET v == IF which = "r" THEN src.px[i][3]
                         ELSE IF which = "g" THEN src.px[i][2] ELSE src.px[i][1]
                IN  <<v, v, v>>]] >>)

SizeMismatch3P2(r, g, b) ==
    \/ S16(r.h.width) # S16(g.h.width) \/ S16(r.h.width) # S16(b.h.width)
    \/ S16(r.h.height) # S16(g.h.height) \/ S16(r.h.height) # S16(b.h.height)

combineRGB_P2(r, g, b) ==
    IF SizeMismatch3P2(r, g, b) THEN OpFailure("mismatch")
    ELSE OpSuccess(<< [cloneLike(r) EXCEPT !.px =
            [i \in 1..Len(r.px) |-> << b.px[i][1], g.px[i][2], r.px[i][3] >>]] >>)

rot180(src) ==
    OpSuccess(<< [cloneLike(src) EXCEPT !.px =
            [i \in 1..Len(src.px) |-> src.px[Len(src.px) + 1 - i]]] >>)

----------------------------------------------------------------------------
(* The decoder and the encoder of each program *)

Decode(v, signed, f) ==
    CASE v = "v1" -> loadV1(f)
      [] v = "v2" -> loadV2(f)
      [] v = "v3" -> loadV3(f)
      [] v = "p2" -> readTGA(f, signed)

Encode(v, im) ==
    CASE v = "v1" -> saveV1(im)
      [] v = "v2" -> saveV2(im)
      [] v = "v3" -> saveV3(im)
      [] v = "p2" -> writeTGA(im)

\* width, height and the flat B,G,R byte sequence of an image of either shape
WidthOf(v, im)  == IF v = "p2" THEN im.h.width ELSE im.width
HeightOf(v, im) == IF v = "p2" THEN im.h.height ELSE im.height
BytesOf(v, im)  == IF v = "p2" THEN FromPixels(im.px) ELSE im.pixels

----------------------------------------------------------------------------
(* The input domain: the files a run may find on disk *)

\* B,G,R triplets the input images are painted with
Palette == { <<10, 20, 30>>, <<200, 150, 100>> }

Dims == { d \in (1..MaxPixels) \X (1..MaxPixels) : d[1] * d[2] <= MaxPixels }

PayloadsOf(d) == { FromPixels(px) : px \in [1..(d[1] * d[2]) -> Palette] }

IdField(n) == [i \in 1..n |-> 77]

MkHeader(idLen, cmt, dtc, w, h, bpp, desc) ==
    [ZeroHeader EXCEPT !.idLength = idLen, !.colorMapType = cmt, !.dataTypeCode = dtc,
                       !.width = w, !.height = h, !.bitsPerPixel = bpp,
                       !.imageDescriptor = desc]

Build(hdr, payload) == HeaderBytes(hdr) \o IdField(hdr.idLength) \o payload

Cut(f, n) == SubSeq(f, 1, Min(n, Len(f)))

IdLens      == {0, MaxIdLen}
Descriptors == {0, ORIGIN_TOP_LEFT}

\* complete files: every combination of the three checked header fields
FilesWith(cmts, dtcs, bpps, dims) ==
    UNION { { Build(MkHeader(id, cmt, dtc, d[1], d[2], bpp, desc), pl) :
                id \in IdLens, desc \in Descriptors, cmt \in cmts, dtc \in dtcs,
                bpp \in bpps, pl \in PayloadsOf(d) } : d \in dims }

\* complete files whose header passes every check of every decoder
GoodFiles  == FilesWith({0}, {2}, {24}, Dims)
WholeFiles == FilesWith({0, 1}, {2, 10}, {24, 32}, Dims)

\* files that end inside the header
ShortFiles ==
    { Cut(f, n) : f \in FilesWith({0, 1}, {2, 10}, {24, 32}, {<<1, 1>>}), n \in 0..(HeaderSize - 1) }

\* files with a valid header that end inside the ID field or the payload
TruncFiles ==
    UNION { { Cut(f, HeaderSize), Cut(f, Len(f) - 1), Cut(f, Len(f) - PIXEL_SIZE) } : f \in GoodFiles }

\* headers at the edges of the field ranges
EdgeFiles ==
    UNION { { Build(MkHeader(id, 0, 2, 1, 1, 24, 0), pl),
              Cut(Build(MkHeader(id, 0, 2, 1, 1, 24, 0), pl), HeaderSize + id + 2) } :
            id \in {128, 255}, pl \in PayloadsOf(<<1, 1>>) }
    \cup { Build(MkHeader(0, 0, 2, 1, 2, 24, desc), pl) :
            desc \in {8, 40}, pl \in PayloadsOf(<<1, 2>>) }
    \cup { Build(MkHeader(0, 0, 2, 65535, h, 24, 0), pl) :
            h \in {1, 65535}, pl \in PayloadsOf(<<1, 1>>) }
    \cup { Build(MkHeader(0, 0, 2, d[1], d[2], 24, desc), << >>) :
            d \in {<<0, 0>>, <<0, 2>>, <<2, 0>>}, desc \in Descriptors }

InputFiles == WholeFiles \cup ShortFiles \cup TruncFiles \cup EdgeFiles \cup {NoFile}

----------------------------------------------------------------------------
(* The codec run: decode a file, encode the image, decode what was written
   (the sequence of the round-trip test and of every command line) *)

NoOp == [op |-> "none"]

Init ==
    /\ variant \in Variants
    /\ charSigned \in (IF variant = "p2" THEN BOOLEAN ELSE {FALSE})
    /\ inFile \in InputFiles
    /\ pc = "start"
    /\ img = NoImage
    /\ res = NoImage
    /\ outFile = NoFile
    /\ back = NoImage
    /\ status = "none"
    /\ lastOp = NoOp
    /\ luts_initialized = (variant = "v1")
    /\ lutsFilled = (variant = "v1")
    /\ opnds = << >>

\* TGA::load / readTGA of the input file
Load ==
    /\ pc = "start"
    /\ \E r \in Decode(variant, charSigned, inFile) :
          /\ img' = r.img
          /\ status' = r.err
          /\ pc' = IF r.err = "none" THEN "loaded" ELSE "failed"
    /\ UNCHANGED <<variant, charSigned, inFile, res, outFile, back, lastOp, opnds,
                 luts_initialized, lutsFilled>>

\* TGA::save / writeTGA of the loaded image
Save ==
    /\ pc = "loaded"
    /\ outFile' = Encode(variant, img)
    /\ pc' = "saved"
    /\ UNCHANGED <<variant, charSigned, inFile, img, res, back, status, lastOp, opnds,
                 luts_initialized, lutsFilled>>

\* TGA::load / readTGA of the file just written
Reload ==
    /\ pc = "saved"
    /\ \E r \in Decode(variant, charSigned, outFile) :
          /\ back' = r.img
          /\ status' = r.err
    /\ pc' = "reloaded"
    /\ UNCHANGED <<variant, charSigned, inFile, img, res, outFile, lastOp, opnds,
                 luts_initialized, lutsFilled>>

Next == Load \/ Save \/ Reload

Spec == Init /\ [][Next]_vars

TypeOK ==
    /\ variant \in Variants
    /\ charSigned \in BOOLEAN
    /\ pc \in {"start", "loaded", "failed", "saved", "reloaded"}
    /\ status \in {"none", "open", "cmap", "dtype", "bpp", "trunc", "alloc", "badheader", "format"}

----------------------------------------------------------------------------
(* What the properties read off a file: the header fields at the offsets of
   the on-disk format, and the bytes that follow the header and the ID field *)

FieldU8(f, off)  == f[off + 1]
FieldU16(f, off) == f[off + 1] + 256 * f[off + 2]
HasHeader(f)     == f # NoFile /\ Len(f) >= 18
FileIdLength(f)  == FieldU8(f, 0)
FileCMapType(f)  == FieldU8(f, 1)
FileDataType(f)  == FieldU8(f, 2)
FileWidth(f)     == FieldU16(f, 12)
FileHeight(f)    == FieldU16(f, 14)
FileBpp(f)       == FieldU8(f, 16)
FileTopLeft(f)   == (FieldU8(f, 17) \div 32) % 2 = 1
ValidHeader(f)   == HasHeader(f) /\ FileCMapType(f) = 0 /\ FileDataType(f) = 2 /\ FileBpp(f) = 24
FilePayload(f)   == SubSeq(f, 18 + FileIdLength(f) + 1, Len(f))

\* 3*w*h > avail, computed without forming the product
NeedsMoreThan(w, h, avail) == w > 0 /\ h > 0 /\ h > (avail \div 3) \div w

\* scanline y (0-based) of a flat B,G,R buffer of the given width
RowOf(bytes, w, y) == SubSeq(bytes, y * w * 3 + 1, (y + 1) * w * 3)

\* a buffer holds scanlines that differ, and a scanline with pixels that differ
RowsDiffer(bytes, w, h) == h >= 2 /\ RowOf(bytes, w, 0) # RowOf(bytes, w, h - 1)
PixelsDifferInRow(bytes, w) == w >= 2 /\ SubSeq(bytes, 1, 3) # SubSeq(bytes, 4, 6)

Decoded == pc \in {"loaded", "failed"}

\* the same logical image stored with the other orientation: the origin bit
\* of the descriptor toggled and the scanlines in the opposite order
ReversedRows(bytes, w, h) ==
    [i \in 1..(3 * w * h) |-> RowOf(bytes, w, h - 1 - ((i - 1) \div (3 * w)))[((i - 1) % (3 * w)) + 1]]

Counterpart(f) ==
    LET d == FieldU8(f, 17)
    IN  [i \in 1..17 |-> f[i]]
        \o << IF FileTopLeft(f) THEN d - 32 ELSE d + 32 >>
        \o SubSeq(f, 19, 18 + FileIdLength(f))
        \o ReversedRows(FilePayload(f), FileWidth(f), FileHeight(f))

\* the file holds every byte of a width x height image of the input domain
HoldsWholeImage(f) ==
    /\ ValidHeader(f)
    /\ FileWidth(f) <= MaxPixels /\ FileHeight(f) <= MaxPixels
    /\ Len(FilePayload(f)) = 3 * FileWidth(f) * FileHeight(f)

----------------------------------------------------------------------------
(* Properties of the codec *)

\* C1: first program of part_000: loading what TGA::save wrote gives back the
\* width, the height and the pixel byte sequence of the saved buffer, for every
\* buffer with width > 0, height > 0 and len(pixels) = width*height*3.
C1_RoundTripV1 ==
    (/\ variant = "v1" /\ pc = "reloaded"
     /\ img.width > 0 /\ img.height > 0
     /\ Len(img.pixels) = img.width * img.height * 3)
    => (/\ status = "none"
        /\ back.width = img.width
        /\ back.height = img.height
        /\ back.pixels = img.pixels)

C1_Witness ==
    /\ variant = "v1" /\ pc = "reloaded" /\ status = "none"
    /\ img.width = 2 /\ img.height = 2
    /\ RowsDiffer(img.pixels, 2, 2) /\ PixelsDifferInRow(img.pixels, 2)
    /\ back = img

\* C2: second and third program of part_000: after save and load, px(x, y) of
\* the loaded image gives the three samples px(x, y) gave on the saved image,
\* for every in-range (x, y).
C2_PxPreserved ==
    (variant \in {"v2", "v3"} /\ pc = "reloaded")
    => (/\ status = "none"
        /\ back.width = img.width
        /\ back.height = img.height
        /\ \A x \in 0..(img.width - 1), y \in 0..(img.height - 1) :
              Samples(back, pxV2(back, x, y)) = Samples(img, pxV2(img, x, y)))

\* C3: project2.cpp: writing an Img that readTGA returned from a valid file
\* (idLength zero or not) and reading the written file succeeds and yields the
\* same width, height and pixel sequence.
C3_RoundTripP2 ==
    (variant = "p2" /\ pc = "reloaded")
    => (/\ status = "none"
        /\ back.h.width = img.h.width
        /\ back.h.height = img.h.height
        /\ back.px = img.px)

\* C4: TGA::load of the first program: with descriptor bit 0x20 set, row y of
\* the returned buffer is disk row height-1-y, pixels inside a row in disk
\* order; with the bit clear the buffer is the payload verbatim; so the file
\* that stores the same logical image with the other orientation decodes to
\* the same buffer.
C4_OrientationV1 ==
    (variant = "v1" /\ pc = "loaded")
    => LET w  == FileWidth(inFile)
           h  == FileHeight(inFile)
           pl == SubSeq(FilePayload(inFile), 1, 3 * w * h)
       IN  /\ img.width = w /\ img.height = h
           /\ Len(img.pixels) = 3 * w * h
           /\ IF FileTopLeft(inFile)
              THEN \A y \in 0..(h - 1) : RowOf(img.pixels, w, y) = RowOf(pl, w, h - 1 - y)
              ELSE img.pixels = pl
           /\ HoldsWholeImage(inFile) => loadV1(Counterpart(inFile)) = {Success(img)}

C4_Witness ==
    /\ variant = "v1" /\ pc = "loaded"
    /\ FileTopLeft(inFile)
    /\ img.width = 2 /\ img.height = 2
    /\ RowsDiffer(img.pixels, 2, 2) /\ PixelsDifferInRow(img.pixels, 2)
    /\ img.pixels # FilePayload(inFile)

\* C5: readTGA of project2.cpp: the file that stores the same logical image
\* with the other orientation (bit 0x20 toggled, rows in the opposite order)
\* decodes to the same pixel sequence.
C5_OrientationP2 ==
    (variant = "p2" /\ pc = "loaded" /\ HoldsWholeImage(inFile))
    => \A r \in readTGA(Counterpart(inFile), charSigned) :
          r.err = "none" /\ r.img.px = img.px

\* C6: TGA::load of the first program rejects a file with the colour-map
\* failure when colorMapType # 0, otherwise with the data-type failure when
\* dataTypeCode # 2, otherwise with the bit-depth failure when bitsPerPixel
\* # 24; each is a failure of its own, different from the truncated-payload
\* failure, and returns no buffer; a header with 0, 2 and 24 raises none.
C6_HeaderValidationV1 ==
    (variant = "v1" /\ Decoded /\ HasHeader(inFile))
    => LET cm == FileCMapType(inFile)
           dt == FileDataType(inFile)
           bp == FileBpp(inFile)
       IN  /\ cm # 0 => status = "cmap" /\ img = NoImage
           /\ (cm = 0 /\ dt # 2) => status = "dtype" /\ img = NoImage
           /\ (cm = 0 /\ dt = 2 /\ bp # 24) => status = "bpp" /\ img = NoImage
           /\ (cm = 0 /\ dt = 2 /\ bp = 24) => status \in {"none", "trunc", "alloc"}

C6_Witness ==
    /\ variant = "v1" /\ pc = "failed" /\ status = "bpp"
    /\ HasHeader(inFile) /\ FileCMapType(inFile) = 0 /\ FileDataType(inFile) = 2
    /\ FileBpp(inFile) = 32

\* C7: readTGA and the TGA::load of the second and third program fail, and
\* return no image, for every file whose colorMapType is not 0.
C7_ColourMapRejected ==
    (variant \in {"p2", "v2", "v3"} /\ Decoded /\ HasHeader(inFile) /\ FileCMapType(inFile) # 0)
    => (status # "none" /\ img = NoImage)

\* C8: TGA::load of the first program and readTGA: a file with a valid header
\* and fewer than width*height*3 bytes after the header and the ID field fails
\* with the truncated-payload failure, and no buffer is returned.
C8_TruncatedPayload ==
    (/\ variant \in {"v1", "p2"} /\ Decoded /\ ValidHeader(inFile)
     /\ NeedsMoreThan(FileWidth(inFile), FileHeight(inFile), Len(FilePayload(inFile))))
    => (status = "trunc" /\ img = NoImage)

----------------------------------------------------------------------------
(* The compositor run: operands in memory, one operation, then the result
   written and read back (what each command of the programs does after its
   loads) *)

OpVariants == {"v1", "v2", "p2"}

\* the images the decoder of a program returns from the good files
LoadedImages(v) ==
    { r.img : r \in { x \in UNION { Decode(v, FALSE, f) : f \in GoodFiles } : x.err = "none" } }

\* two-colour images, one per size and phase, for the further operands
PaletteSeq == << <<10, 20, 30>>, <<200, 150, 100>> >>
PatternBytes(d, k) == FromPixels([i \in 1..(d[1] * d[2]) |-> PaletteSeq[((i + k) % 2) + 1]])
PatternFiles(ids) ==
    { Build(MkHeader(id, 0, 2, d[1], d[2], 24, 0), PatternBytes(d, k)) :
        id \in ids, d \in Dims, k \in {0, 1} }
PatternImages(v, ids) ==
    { r.img : r \in { x \in UNION { Decode(v, FALSE, f) : f \in PatternFiles(ids) } : x.err = "none" } }

ModesOf(v) == IF v = "p2" THEN {"MULTI", "SUBTR", "SCREEN", "OVERLAY"}
              ELSE {"ADD", "SUBTRACT", "MULTIPLY", "SCREEN", "OVERLAY"}

InitOps ==
    /\ variant \in OpVariants
    /\ charSigned = FALSE
    /\ inFile = NoFile
    /\ pc = "ready"
    /\ img = NoImage
    /\ res = NoResult
    /\ outFile = NoFile
    /\ back = NoImage
    /\ status = "none"
    /\ lastOp = NoOp
    /\ luts_initialized = (variant = "v1")
    /\ lutsFilled = (variant = "v1")
    /\ \/ \E a \in LoadedImages(variant) : opnds = << a >>
       \/ \E a \in PatternImages(variant, IdLens), b \in PatternImages(variant, {0}) :
             opnds = << a, b >>
       \/ \E a \in PatternImages(variant, IdLens), b \in PatternImages(variant, {0}),
             c \in PatternImages(variant, {0}) : opnds = << a, b, c >>

Finish(r, op) ==
    /\ res' = r.out
    /\ status' = r.err
    /\ lastOp' = op
    /\ pc' = IF r.err = "none" THEN "computed" ELSE "opfailed"
    /\ UNCHANGED <<variant, charSigned, inFile, img, outFile, back, opnds>>

\* the operations that never touch the lookup tables
LutsUntouched == UNCHANGED <<luts_initialized, lutsFilled>>

\* blendPixel of the first program runs init_luts before a MULTIPLY or a
\* SCREEN when the tables are not initialised; it runs once per pixel
BlendLuts(m) ==
    IF /\ variant = "v1" /\ m \in {"MULTIPLY", "SCREEN"} /\ ~luts_initialized
       /\ ~SizeMismatch(opnds[1], opnds[2]) /\ opnds[1].width * opnds[1].height > 0
    THEN luts_initialized' = init_luts.initialized /\ lutsFilled' = init_luts.filled
    ELSE LutsUntouched

\* Blend::apply(base, overlay, mode) / blend(top, bottom, mode) on the first two operands
Blend ==
    /\ pc = "ready" /\ Len(opnds) = 2
    /\ \E m \in ModesOf(variant) :
          /\ Finish(CASE variant = "v1" -> applyV1(opnds[1], opnds[2], m)
                      [] variant = "v2" -> applyV2(opnds[1], opnds[2], m)
                      [] variant = "p2" -> blend(opnds[1], opnds[2], m),
                    [op |-> "blend", mode |-> m])
          /\ BlendLuts(m)

Combine ==
    /\ pc = "ready" /\ Len(opnds) = 3
    /\ Finish(IF variant = "p2" THEN combineRGB_P2(opnds[1], opnds[2], opnds[3])
              ELSE combineRGB(opnds[1], opnds[2], opnds[3]),
              [op |-> "combine"])
    /\ LutsUntouched

Split ==
    /\ pc = "ready" /\ Len(opnds) = 1 /\ variant # "p2"
    /\ Finish(splitRGB(opnds[1]), [op |-> "split"])
    /\ LutsUntouched

\* combineRGB(r, g, b) on the three buffers splitRGB has just filled
Recombine ==
    /\ pc = "computed" /\ lastOp.op = "split"
    /\ Finish(combineRGB(res[1], res[2], res[3]), [op |-> "recombine"])
    /\ LutsUntouched

\* rotate180 / rot180 of the image the rotation has just returned
RotateAgain ==
    /\ pc = "computed" /\ lastOp.op = "rotate"
    /\ Finish(IF variant = "p2" THEN rot180(res[1]) ELSE rotate180(res[1]),
              [op |-> "rotate2"])
    /\ LutsUntouched

PickChannel ==
    /\ pc = "ready" /\ Len(opnds) = 1 /\ variant = "p2"
    /\ \E which \in {"r", "g", "b"} :
          /\ Finish(pickChannel(opnds[1], which), [op |-> "pick", which |-> which])
          /\ LutsUntouched

Rotate ==
    /\ pc = "ready" /\ Len(opnds) = 1
    /\ Finish(IF variant = "p2" THEN rot180(opnds[1]) ELSE rotate180(opnds[1]),
              [op |-> "rotate"])
    /\ LutsUntouched

\* TGA::save / writeTGA of one image the operation produced
WriteResult ==
    /\ pc = "computed"
    /\ \E k \in 1..Len(res) :
          /\ img' = res[k]
          /\ outFile' = Encode(variant, res[k])
    /\ pc' = "saved"
    /\ UNCHANGED <<variant, charSigned, inFile, res, back, status, lastOp, opnds,
                 luts_initialized, lutsFilled>>

NextOps ==
    \/ Blend \/ Combine \/ Split \/ Recombine \/ PickChannel
    \/ Rotate \/ RotateAgain \/ WriteResult \/ Reload

SpecOps == InitOps /\ [][NextOps]_vars

----------------------------------------------------------------------------
(* The blend of two one-pixel images, over every pair of channel values *)

PixelPairs ==
    { << <<x, 255 - x, (x + 128) % 256>>, <<y, (y + 128) % 256, 255 - y>> >> : x \in Byte, y \in Byte }

\* the image the decoder returns from a 1x1 file holding the pixel
OnePixel(v, px) ==
    (CHOOSE r \in Decode(v, FALSE, Build(MkHeader(0, 0, 2, 1, 1, 24, 0), px)) : TRUE).img

InitPixel ==
    /\ variant \in OpVariants
    /\ charSigned = FALSE
    /\ inFile = NoFile
    /\ pc = "ready"
    /\ img = NoImage
    /\ res = NoResult
    /\ outFile = NoFile
    /\ back = NoImage
    /\ status = "none"
    /\ lastOp = NoOp
    /\ luts_initialized = (variant = "v1")
    /\ lutsFilled = (variant = "v1")
    /\ \E pp \in PixelPairs : opnds = << OnePixel(variant, pp[1]), OnePixel(variant, pp[2]) >>

NextPixel == Blend

SpecPixel == InitPixel /\ [][NextPixel]_vars

----------------------------------------------------------------------------
(* Properties of the compositor *)

OperandsDiffer ==
    \E i, j \in 1..Len(opnds) :
        \/ WidthOf(variant, opnds[i]) # WidthOf(variant, opnds[j])
        \/ HeightOf(variant, opnds[i]) # HeightOf(variant, opnds[j])

\* C9: Blend::apply (every mode) and combineRGB of part_000, and blend and
\* combineRGB of project2.cpp, fail exactly when two operands differ in width
\* or in height; on a mismatch no output buffer is produced; with equal sizes
\* the check does not fail and the output has the operands' full size.
C9_DimensionMismatch ==
    (pc \in {"computed", "opfailed"} /\ lastOp.op \in {"blend", "combine"})
    => IF OperandsDiffer
       THEN status = "mismatch" /\ pc = "opfailed" /\ res = NoResult
       ELSE /\ status = "none" /\ pc = "computed" /\ Len(res) = 1
            /\ WidthOf(variant, res[1]) = WidthOf(variant, opnds[1])
            /\ HeightOf(variant, res[1]) = HeightOf(variant, opnds[1])
            /\ Len(BytesOf(variant, res[1])) = Len(BytesOf(variant, opnds[1]))

C9_Witness ==
    /\ pc = "opfailed" /\ status = "mismatch" /\ variant = "v1" /\ lastOp.op = "combine"
    /\ opnds[1].width = opnds[2].width /\ opnds[1].height = opnds[2].height
    /\ opnds[1].width = opnds[3].width /\ opnds[1].height # opnds[3].height

\* C10: Blend::apply with mode ADD yields min(b + o, 255) in every channel of
\* every pixel, for all channel values b, o in 0..255; the sum never wraps
\* modulo 256.
C10_AddSaturates ==
    (variant = "v1" /\ pc = "computed" /\ lastOp.op = "blend" /\ lastOp.mode = "ADD")
    => /\ Len(res[1].pixels) = Len(opnds[1].pixels)
       /\ \A i \in 1..Len(res[1].pixels) :
             /\ res[1].pixels[i] = Min(opnds[1].pixels[i] + opnds[2].pixels[i], 255)
             /\ res[1].pixels[i] >= opnds[1].pixels[i]
             /\ res[1].pixels[i] >= opnds[2].pixels[i]

C10_Witness ==
    /\ variant = "v1" /\ pc = "computed" /\ lastOp.op = "blend" /\ lastOp.mode = "ADD"
    /\ opnds[1].pixels[1] = 250 /\ opnds[2].pixels[1] = 10 /\ res[1].pixels[1] = 255

----------------------------------------------------------------------------
(* Properties of the blend modes, sample by sample *)

Blended == pc = "computed" /\ lastOp.op = "blend"

\* the bottom operand (the base) and the top operand (the overlay) of the blend
\* just computed: Blend::apply(bot, top, m) takes the base first,
\* blend(top, bottom, m) takes it second
BaseBytes    == BytesOf(variant, IF variant = "p2" THEN opnds[2] ELSE opnds[1])
OverlayBytes == BytesOf(variant, IF variant = "p2" THEN opnds[1] ELSE opnds[2])
OutBytes     == BytesOf(variant, res[1])

\* C11: Subtract yields max(base - overlay, 0) for all channel values, the
\* base being the bottom operand (first argument of Blend::apply, second
\* argument of blend); it is never overlay - base and never wraps below 0.
C11_SubtractFloor ==
    (Blended /\ lastOp.mode \in {"SUBTRACT", "SUBTR"})
    => /\ Len(OutBytes) = Len(BaseBytes)
       /\ \A i \in 1..Len(OutBytes) :
             /\ OutBytes[i] = Max(BaseBytes[i] - OverlayBytes[i], 0)
             /\ BaseBytes[i] <= OverlayBytes[i] => OutBytes[i] = 0
             /\ OutBytes[i] <= BaseBytes[i]

C11_Witness ==
    /\ Blended /\ variant = "p2" /\ lastOp.mode = "SUBTR"
    /\ BaseBytes[1] = 50 /\ OverlayBytes[1] = 100 /\ OutBytes[1] = 0
    /\ BaseBytes[2] > OverlayBytes[2] /\ OutBytes[2] = BaseBytes[2] - OverlayBytes[2]

\* C12: Multiply of the first program yields floor((b*o + 127) / 255), the
\* integer nearest to b*o/255, for all b, o in 0..255; the entry read from
\* multiply_lut equals mul255_round(b, o); a sample 100, 150 or 200 under a
\* 128 overlay gives 50, 75 or 100; 255 returns the other operand and 0
\* returns 0.
C12_MultiplyRoundsV1 ==
    (Blended /\ variant = "v1" /\ lastOp.mode = "MULTIPLY")
    => /\ Len(OutBytes) = Len(BaseBytes)
       /\ luts_initialized /\ lutsFilled
       /\ \A i \in 1..Len(OutBytes) :
             LET b == BaseBytes[i]
                 o == OverlayBytes[i]
                 v == OutBytes[i]
             IN  /\ v = (b * o + 127) \div 255
                 /\ 2 * (255 * v - b * o) < 255 /\ 2 * (b * o - 255 * v) < 255
                 /\ multiply_lut(b, o) = mul255_round(b, o)
                 /\ v = multiply_lut(b, o)
                 /\ (o = 128 /\ b = 100) => v = 50
                 /\ (o = 128 /\ b = 150) => v = 75
                 /\ (o = 128 /\ b = 200) => v = 100
                 /\ o = 255 => v = b
                 /\ b = 255 => v = o
                 /\ (o = 0 \/ b = 0) => v = 0

C12_Witness ==
    /\ Blended /\ variant = "v1" /\ lastOp.mode = "MULTIPLY"
    /\ BaseBytes[1] = 1 /\ OverlayBytes[1] = 128 /\ OutBytes[1] = 1

\* C13: Multiply of project2.cpp (blend, MULTI) and of the second program
\* (blendPixel, MULTIPLY) rounds to nearest: the result is
\* floor((a*b + 127) / 255) for all a, b in 0..255.
C13_MultiplyRoundsP2V2 ==
    (Blended /\ variant \in {"p2", "v2"} /\ lastOp.mode \in {"MULTI", "MULTIPLY"})
    => \A i \in 1..Len(OutBytes) :
          OutBytes[i] = (BaseBytes[i] * OverlayBytes[i] + 127) \div 255

\* C14: Screen of the first program yields
\* 255 - floor(((255-b)*(255-o) + 127) / 255) for all b, o in 0..255; the value
\* lies in 0..255 and the entry read from screen_lut equals scr255_round(b, o).
C14_ScreenV1 ==
    (Blended /\ variant = "v1" /\ lastOp.mode = "SCREEN")
    => /\ Len(OutBytes) = Len(BaseBytes)
       /\ luts_initialized /\ lutsFilled
       /\ \A i \in 1..Len(OutBytes) :
             LET b == BaseBytes[i]
                 o == OverlayBytes[i]
                 v == OutBytes[i]
             IN  /\ v = 255 - ((255 - b) * (255 - o) + 127) \div 255
                 /\ v \in Byte
                 /\ screen_lut(b, o) = scr255_round(b, o)
                 /\ v = screen_lut(b, o)

C14_Witness ==
    /\ Blended /\ variant = "v1" /\ lastOp.mode = "SCREEN"
    /\ BaseBytes[1] = 254 /\ OverlayBytes[1] = 127 /\ OutBytes[1] = 254

\* C15: Overlay of the first program yields floor((2*b*o + 127) / 255) when
\* the base b < 128 and 255 - floor((2*(255-b)*(255-o) + 127) / 255) when
\* b >= 128, for all b, o in 0..255; the base alone selects the branch (127
\* the first, 128 the second) and the selected value lies in 0..255, so the
\* narrowing of mul255_round to a byte leaves it unchanged.
C15_OverlayV1 ==
    (Blended /\ variant = "v1" /\ lastOp.mode = "OVERLAY")
    => /\ Len(OutBytes) = Len(BaseBytes)
       /\ \A i \in 1..Len(OutBytes) :
             LET b == BaseBytes[i]
                 o == OverlayBytes[i]
                 v == OutBytes[i]
                 low  == (2 * b * o + 127) \div 255
                 high == (2 * (255 - b) * (255 - o) + 127) \div 255
             IN  /\ b < 128  => v = low /\ low \in Byte /\ mul255_round(2 * b, o) = low
                 /\ b >= 128 => v = 255 - high /\ high \in Byte
                                 /\ mul255_round(2 * (255 - b), 255 - o) = high
                 /\ v \in Byte

C15_Witness ==
    /\ Blended /\ variant = "v1" /\ lastOp.mode = "OVERLAY"
    /\ BaseBytes[1] = 128 /\ OverlayBytes[1] = 10 /\ OutBytes[1] = 11
    /\ OutBytes[1] # (2 * 128 * 10 + 127) \div 255

----------------------------------------------------------------------------
(* The channel commands: one image loaded, one channel changed in place, the
   image written and read back *)

Deltas  == {-MaxDelta, -200, -1, 0, 1, 200, MaxDelta}
Factors == {<<0, 1>>, <<1, 1>>, <<1, 2>>} \cup {<<k, 1>> : k \in 2..MaxFactor}

\* one-pixel images holding every channel value at every offset
GradientImages(v) == { OnePixel(v, <<x, 255 - x, (x + 128) % 256>>) : x \in Byte }

InitChan ==
    /\ variant \in OpVariants
    /\ charSigned = FALSE
    /\ inFile = NoFile
    /\ pc = "ready"
    /\ img = NoImage
    /\ res = NoResult
    /\ outFile = NoFile
    /\ back = NoImage
    /\ status = "none"
    /\ lastOp = NoOp
    /\ luts_initialized = (variant = "v1")
    /\ lutsFilled = (variant = "v1")
    /\ \E a \in LoadedImages(variant) \cup GradientImages(variant) : opnds = << a >>

\* the image is changed where it is: the operand itself is what is saved
InPlace(new, op) ==
    /\ opnds' = << new >>
    /\ res' = << new >>
    /\ status' = "none"
    /\ lastOp' = op
    /\ pc' = "computed"
    /\ UNCHANGED <<variant, charSigned, inFile, img, outFile, back, luts_initialized, lutsFilled>>

AddToChannel ==
    /\ pc = "ready" /\ Len(opnds) = 1 /\ variant # "p2"
    /\ \E idx \in 0..2, delta \in Deltas :
          InPlace(addToChannel(opnds[1], idx, delta),
                  [op |-> "addch", idx |-> idx, delta |-> delta])

ScaleChannel ==
    /\ pc = "ready" /\ Len(opnds) = 1
    /\ \/ /\ variant # "p2"
          /\ \E idx \in 0..2, f \in Factors :
                InPlace(scaleChannel(opnds[1], idx, f),
                        [op |-> "scalech", fs |-> [c \in 0..2 |-> IF c = idx THEN f ELSE <<1, 1>>],
                         idx |-> idx])
       \/ /\ variant = "p2"
          /\ \E sr \in Factors, sg \in Factors, sb \in Factors :
                InPlace(scaleChan(opnds[1], sr, sg, sb),
                        [op |-> "scalech", fs |-> [c \in 0..2 |-> <<sb, sg, sr>>[c + 1]],
                         idx |-> -1])

NextChan == AddToChannel \/ ScaleChannel \/ WriteResult \/ Reload

SpecChan == InitChan /\ [][NextChan]_vars

----------------------------------------------------------------------------
(* Properties of the channel commands *)

\* a step of the named command, from the image loaded to the image changed
ChannelStep(op) == pc = "ready" /\ pc' = "computed" /\ lastOp'.op = op

SameExtent(v, old, new) ==
    /\ WidthOf(v, new) = WidthOf(v, old)
    /\ HeightOf(v, new) = HeightOf(v, old)
    /\ Len(BytesOf(v, new)) = Len(BytesOf(v, old))

\* C16: addToChannel(img, idx, delta), idx in {0,1,2}, delta a bounded integer
\* of either sign: every sample of channel idx becomes clamp(old + delta, 0,
\* 255); the samples of the other two channels of every pixel, the width, the
\* height and the buffer length are unchanged.
C16_AddToChannel ==
    [][ChannelStep("addch") =>
          LET old == opnds[1]
              new == opnds'[1]
          IN  /\ SameExtent(variant, old, new)
              /\ \A i \in 1..Len(old.pixels) :
                    new.pixels[i] =
                        IF (i - 1) % 3 = lastOp'.idx
                        THEN Max(0, Min(old.pixels[i] + lastOp'.delta, 255))
                        ELSE old.pixels[i]]_vars

C16_Witness ==
    /\ pc = "computed" /\ lastOp.op = "addch" /\ lastOp.idx = 1 /\ lastOp.delta = -200
    /\ Len(opnds[1].pixels) >= 6
    /\ opnds[1].pixels[2] = 0 /\ opnds[1].pixels[1] > 0 /\ opnds[1].pixels[3] > 0

\* what the claim says a sample becomes under a factor
ScaledSample(old, f) ==
    CASE f = <<0, 1>> -> 0
      [] f = <<1, 1>> -> old
      [] f = <<1, 2>> -> (old + 1) \div 2
      [] OTHER        -> Min(old * f[1], 255)

\* C17: scaleChannel(img, idx, factor) / scaleChan: factor 0 makes every
\* sample of the channel 0, factor 1 leaves the buffer unchanged, an integer
\* factor k >= 2 makes every sample min(old*k, 255), factor 1/2 makes it
\* floor((old + 1) / 2); the other two channels, the width and the height are
\* unchanged.
C17_ScaleChannel ==
    [][ChannelStep("scalech") =>
          LET old == BytesOf(variant, opnds[1])
              new == BytesOf(variant, opnds'[1])
              fs  == lastOp'.fs
          IN  /\ SameExtent(variant, opnds[1], opnds'[1])
              /\ \A i \in 1..Len(old) :
                    /\ new[i] = ScaledSample(old[i], fs[(i - 1) % 3])
                    /\ (lastOp'.idx >= 0 /\ (i - 1) % 3 # lastOp'.idx) => new[i] = old[i]
              /\ (\A c \in 0..2 : fs[c] = <<1, 1>>) => opnds'[1] = opnds[1]]_vars

C17_Witness ==
    /\ pc = "computed" /\ lastOp.op = "scalech" /\ variant = "v1"
    /\ lastOp.idx = 2 /\ lastOp.fs[2] = <<1, 2>>
    /\ opnds[1].pixels = <<127, 128, 128>>

----------------------------------------------------------------------------
(* Properties of the channel split and of the channel merge *)

\* byte offset of the channel an output of splitRGB / pickChannel stands for
OffsetOfOutput(k) == 3 - k
OffsetOfLetter(which) == IF which = "r" THEN 2 ELSE IF which = "g" THEN 1 ELSE 0

\* all three samples of every pixel of out are the source's sample at off
Broadcasts(out, src, off) ==
    /\ Len(out) = Len(src)
    /\ \A i \in 1..Len(out) : out[i] = src[i - ((i - 1) % 3) + off]

\* C18: splitRGB broadcasts: all three samples of output r at every pixel
\* equal the source's red sample (offset 2), those of g the green sample
\* (offset 1), those of b the blue sample (offset 0); each output has the
\* source's width and height and the source is unchanged; pickChannel does the
\* same for its selected channel.
C18_SplitBroadcasts ==
    [][(pc = "ready" /\ pc' = "computed" /\ lastOp'.op \in {"split", "pick"}) =>
          /\ opnds' = opnds
          /\ lastOp'.op = "split" =>
                /\ Len(res') = 3
                /\ \A k \in 1..3 :
                      /\ res'[k].width = opnds[1].width
                      /\ res'[k].height = opnds[1].height
                      /\ Broadcasts(res'[k].pixels, opnds[1].pixels, OffsetOfOutput(k))
          /\ lastOp'.op = "pick" =>
                /\ Len(res') = 1
                /\ res'[1].h = opnds[1].h
                /\ Broadcasts(FromPixels(res'[1].px), FromPixels(opnds[1].px),
                              OffsetOfLetter(lastOp'.which))]_vars

C18_Witness ==
    /\ pc = "computed" /\ lastOp.op = "split" /\ variant = "v1"
    /\ Len(opnds[1].pixels) >= 6
    /\ opnds[1].pixels[1] # opnds[1].pixels[3] /\ opnds[1].pixels[4] # opnds[1].pixels[1]
    /\ res[1].pixels[1] = opnds[1].pixels[3] /\ res[1].pixels[4] = opnds[1].pixels[6]
    /\ res[3].pixels[3] = opnds[1].pixels[1]

\* C19: combineRGB of part_000 reads the matching channel of each input: for
\* equal-sized inputs r, g, b, grey or not, the output's red sample at every
\* pixel is r's red sample, its green sample g's green sample and its blue
\* sample b's blue sample.
C19_CombineMatchingChannel ==
    (pc = "computed" /\ lastOp.op = "combine" /\ variant \in {"v1", "v2"})
    => \A i \in 1..Len(res[1].pixels) :
          res[1].pixels[i] = CASE (i - 1) % 3 = 2 -> opnds[1].pixels[i]
                               [] (i - 1) % 3 = 1 -> opnds[2].pixels[i]
                               [] (i - 1) % 3 = 0 -> opnds[3].pixels[i]

\* C20: for every buffer src, combineRGB of the three buffers splitRGB fills
\* from src has the width and the height of src and the same pixel bytes.
C20_SplitCombineRoundTrip ==
    (lastOp.op = "recombine" /\ pc \in {"computed", "opfailed"})
    => /\ pc = "computed" /\ status = "none" /\ Len(res) = 1
       /\ res[1].width = opnds[1].width
       /\ res[1].height = opnds[1].height
       /\ res[1].pixels = opnds[1].pixels

C20_Witness ==
    /\ lastOp.op = "recombine" /\ pc = "computed" /\ variant = "v1"
    /\ Len(opnds[1].pixels) >= 6
    /\ opnds[1].pixels[1] # opnds[1].pixels[3] /\ opnds[1].pixels[1] # opnds[1].pixels[4]
    /\ res[1] = opnds[1]

----------------------------------------------------------------------------
(* Properties of the rotation *)

\* C21: rotate180 (part_000) and rot180 (project2.cpp): with n = width*height
\* pixels, output pixel p is input pixel n-1-p for every p in 0..n-1, its three
\* samples in the same B,G,R order; width and height are unchanged and the
\* input is not modified.
C21_RotateReversesPixels ==
    [][(pc = "ready" /\ pc' = "computed" /\ lastOp'.op = "rotate") =>
          LET in  == BytesOf(variant, opnds[1])
              out == BytesOf(variant, res'[1])
              n   == WidthOf(variant, opnds[1]) * HeightOf(variant, opnds[1])
          IN  /\ opnds' = opnds
              /\ Len(res') = 1
              /\ SameExtent(variant, opnds[1], res'[1])
              /\ Len(out) = 3 * n
              /\ \A p \in 0..(n - 1) : \A c \in 1..3 :
                    out[3 * p + c] = in[3 * (n - 1 - p) + c]]_vars

C21_Witness ==
    /\ pc = "computed" /\ lastOp.op = "rotate" /\ variant = "p2"
    /\ Len(opnds[1].px) >= 3
    /\ opnds[1].px[1] # opnds[1].px[Len(opnds[1].px)]
    /\ opnds[1].px[1][1] # opnds[1].px[1][3]
    /\ res[1].px[1] = opnds[1].px[Len(opnds[1].px)]

\* C22: rotate180(rotate180(x)) has the width, the height and the pixel byte
\* sequence of x, for every buffer x.
C22_RotateInvolution ==
    (pc \in {"computed", "opfailed"} /\ lastOp.op = "rotate2" /\ variant \in {"v1", "v2"})
    => /\ pc = "computed" /\ Len(res) = 1
       /\ res[1].width = opnds[1].width
       /\ res[1].height = opnds[1].height
       /\ res[1].pixels = opnds[1].pixels

C22_Witness ==
    /\ pc = "computed" /\ lastOp.op = "rotate2" /\ variant = "v1"
    /\ Len(opnds[1].pixels) >= 9
    /\ PixelAt(opnds[1].pixels, 1) # PixelAt(opnds[1].pixels, 3)
    /\ res[1] = opnds[1]

----------------------------------------------------------------------------
(* Properties of the encoder of the first program *)

\* C23: the file TGA::save of the first program writes for a buffer with
\* len(pixels) = width*height*3 is exactly 18 + width*height*3 bytes long; its
\* header has idLength 0, colorMapType 0, dataTypeCode 2, the buffer's width
\* and height (little-endian), bitsPerPixel 24 and bit 0x20 of imageDescriptor
\* clear; file byte 18+k is pixels[k] for every k.
C23_SaveLayoutV1 ==
    (variant = "v1" /\ pc = "saved")
    => /\ Len(img.pixels) = img.width * img.height * 3
       /\ Len(outFile) = 18 + img.width * img.height * 3
       /\ FileIdLength(outFile) = 0
       /\ FileCMapType(outFile) = 0
       /\ FileDataType(outFile) = 2
       /\ outFile[13] = img.width % 256 /\ outFile[14] = img.width \div 256
       /\ outFile[15] = img.height % 256 /\ outFile[16] = img.height \div 256
       /\ FileBpp(outFile) = 24
       /\ ~FileTopLeft(outFile)
       /\ \A k \in 0..(Len(img.pixels) - 1) : outFile[18 + k + 1] = img.pixels[k + 1]

C23_Witness ==
    /\ variant = "v1" /\ pc = "saved"
    /\ img.width = 1 /\ img.height = 2
    /\ PixelAt(img.pixels, 1) # PixelAt(img.pixels, 2)
    /\ FileTopLeft(inFile) /\ FileIdLength(inFile) > 0
    /\ Len(outFile) = 24 /\ outFile[19] = img.pixels[1] /\ outFile[24] = img.pixels[6]

----------------------------------------------------------------------------
(* Sequences of compositor calls of part_000: the buffers in existence are
   the loaded ones and every result; a call takes its operands among them *)

ChainVariants == {"v1", "v2"}
ChainDims     == { d \in Dims : d[1] * d[2] <= 2 }
ChainModes    == {"ADD", "MULTIPLY"}
ChainDeltas   == {200}
ChainFactors  == {<<1, 2>>}

\* the images TGA::load returns from the two-colour files of the small sizes
ChainImages(v, k) ==
    { r.img : r \in { x \in UNION { Decode(v, FALSE,
                                          Build(MkHeader(0, 0, 2, d[1], d[2], 24, 0),
                                                PatternBytes(d, k))) : d \in ChainDims } :
                      x.err = "none" } }

InitChain ==
    /\ variant \in ChainVariants
    /\ charSigned = FALSE
    /\ inFile = NoFile
    /\ pc = "ready"
    /\ img = NoImage
    /\ res = NoResult
    /\ outFile = NoFile
    /\ back = NoImage
    /\ status = "none"
    /\ lastOp = [op |-> "none", args |-> << >>, outs |-> << >>, n |-> 0]
    /\ luts_initialized = (variant = "v1")
    /\ lutsFilled = (variant = "v1")
    /\ \E a \in ChainImages(variant, 0), b \in ChainImages(variant, 1) : opnds = << a, b >>

CanCall == pc = "ready" /\ lastOp.n < MaxCalls

\* a call that returns new buffers, or throws: its operands stay as they are
Returned(r, op, args) ==
    /\ res' = r.out
    /\ status' = r.err
    /\ pc' = IF r.err = "none" THEN "ready" ELSE "opfailed"
    /\ opnds' = opnds \o r.out
    /\ lastOp' = [op |-> op, args |-> args, n |-> lastOp.n + 1,
                  outs |-> [k \in 1..Len(r.out) |-> Len(opnds) + k]]
    /\ UNCHANGED <<variant, charSigned, inFile, img, outFile, back>>

\* a call that changes one of the buffers where it is
Changed(i, new, op) ==
    /\ opnds' = [opnds EXCEPT ![i] = new]
    /\ lastOp' = [op |-> op, args |-> << i >>, outs |-> << i >>, n |-> lastOp.n + 1]
    /\ UNCHANGED <<variant, charSigned, inFile, pc, img, res, outFile, back, status,
                   luts_initialized, lutsFilled>>

ChainApply ==
    /\ CanCall
    /\ \E i \in 1..Len(opnds), j \in 1..Len(opnds), m \in ChainModes :
          /\ Returned(IF variant = "v1" THEN applyV1(opnds[i], opnds[j], m)
                      ELSE applyV2(opnds[i], opnds[j], m), "blend", << i, j >>)
          /\ IF /\ variant = "v1" /\ m \in {"MULTIPLY", "SCREEN"} /\ ~luts_initialized
                /\ ~SizeMismatch(opnds[i], opnds[j]) /\ opnds[i].width * opnds[i].height > 0
             THEN luts_initialized' = init_luts.initialized /\ lutsFilled' = init_luts.filled
             ELSE LutsUntouched

ChainCombine ==
    /\ CanCall
    /\ \E i \in 1..Len(opnds), j \in 1..Len(opnds), k \in 1..Len(opnds) :
          Returned(combineRGB(opnds[i], opnds[j], opnds[k]), "combine", << i, j, k >>)
    /\ LutsUntouched

ChainSplit ==
    /\ CanCall
    /\ \E i \in 1..Len(opnds) : Returned(splitRGB(opnds[i]), "split", << i >>)
    /\ LutsUntouched

ChainRotate ==
    /\ CanCall
    /\ \E i \in 1..Len(opnds) : Returned(rotate180(opnds[i]), "rotate", << i >>)
    /\ LutsUntouched

ChainAddTo ==
    /\ CanCall
    /\ \E i \in 1..Len(opnds), idx \in 0..2, delta \in ChainDeltas :
          Changed(i, addToChannel(opnds[i], idx, delta), "addch")

ChainScale ==
    /\ CanCall
    /\ \E i \in 1..Len(opnds), idx \in 0..2, f \in ChainFactors :
          Changed(i, scaleChannel(opnds[i], idx, f), "scalech")

NextChain ==
    ChainApply \/ ChainCombine \/ ChainSplit \/ ChainRotate \/ ChainAddTo \/ ChainScale

SpecChain == InitChain /\ [][NextChain]_vars

\* every buffer in existence holds width*height*3 bytes
LengthsHold ==
    \A k \in 1..Len(opnds) :
        Len(opnds[k].pixels) = opnds[k].width * opnds[k].height * 3

\* a call that did not fail leaves every buffer it returned or changed with
\* the width and the height of each of its operands
ExtentsKept ==
    (lastOp'.n = lastOp.n + 1 /\ pc' = "ready")
    => \A o \in 1..Len(lastOp'.outs) : \A a \in 1..Len(lastOp'.args) :
          /\ opnds'[lastOp'.outs[o]].width = opnds[lastOp'.args[a]].width
          /\ opnds'[lastOp'.outs[o]].height = opnds[lastOp'.args[a]].height

\* C24: starting from buffers TGA::load returned, after any sequence of
\* Blend::apply, addToChannel, scaleChannel, splitRGB, combineRGB and rotate180
\* calls that do not fail, every buffer in existence has
\* len(pixels) = width*height*3, and every result buffer has the width and the
\* height of the operands it was computed from.
C24_LengthInvariant == []LengthsHold /\ [][ExtentsKept]_vars

C24_Witness ==
    /\ pc = "ready" /\ lastOp.n = 2 /\ lastOp.op = "combine" /\ Len(opnds) = 6
    /\ lastOp.args = << 3, 4, 5 >> /\ opnds[6] = opnds[1]
    /\ opnds[1].width * opnds[1].height = 2 /\ opnds[2].width # opnds[1].width

----------------------------------------------------------------------------
(* Properties of the decoders at the edges of the header *)

\* C25: TGA::load of the first program on a file that ends before the 18-byte
\* header is complete (0 to 17 bytes) fails with the short-read failure, never
\* with a format failure (colour map, data type, bit depth), and returns no
\* buffer.
C25_ShortHeaderV1 ==
    (variant = "v1" /\ Decoded /\ inFile # NoFile /\ Len(inFile) < 18)
    => /\ pc = "failed" /\ img = NoImage
       /\ status \notin {"cmap", "dtype", "bpp"}
       /\ status = "trunc"

\* the same file with the ID field removed and idLength set to 0
StripId(f) == << 0 >> \o SubSeq(f, 2, 18) \o FilePayload(f)

\* C26: for every value 0..255 of the idLength byte, TGA::load of the first
\* program and readTGA start reading the payload idLength bytes after the
\* 18-byte header: a file with an n-byte ID field decodes to the pixels of the
\* same file with the ID removed and idLength 0; the byte is never taken as a
\* negative offset.
C26_IdSkip ==
    (variant \in {"v1", "p2"} /\ Decoded /\ HoldsWholeImage(inFile))
    => /\ pc = "loaded"
       /\ \E r \in Decode(variant, charSigned, StripId(inFile)) :
             /\ r.err = "none"
             /\ WidthOf(variant, r.img) = WidthOf(variant, img)
             /\ HeightOf(variant, r.img) = HeightOf(variant, img)
             /\ BytesOf(variant, r.img) = BytesOf(variant, img)

\* C27: for every header width and height in 0..65535 the decoder allocates
\* and reads exactly width*height*3 payload bytes, width and height taken as
\* unsigned 16-bit values: a file holding them is decoded to a buffer of that
\* length and a file holding fewer fails as truncated; neither readTGA nor
\* TGA::load sign-extends a field or wraps the product.
C27_ExtentArithmetic ==
    (/\ variant \in {"v1", "p2"} /\ Decoded /\ ValidHeader(inFile)
     /\ FileIdLength(inFile) <= MaxIdLen)
    => IF NeedsMoreThan(FileWidth(inFile), FileHeight(inFile), Len(FilePayload(inFile)))
       THEN status = "trunc" /\ img = NoImage
       ELSE /\ pc = "loaded"
            /\ Len(BytesOf(variant, img)) = 3 * FileWidth(inFile) * FileHeight(inFile)

----------------------------------------------------------------------------
(* The lookup tables of the first program, from static storage on: the
   tables and the flag start zeroed, the LutBootstrap object fills them before
   main, and blendPixel fills them itself in a build without that object *)

LutSamples == {0, 1, 127, 128, 255}
LutPixels  == { <<x, 255 - x, (x + 128) % 256>> : x \in LutSamples }

\* the image TGA::load returns from a header-only file of width and height 0
EmptyImage ==
    (CHOOSE r \in Decode("v1", FALSE, Build(MkHeader(0, 0, 2, 0, 0, 24, 0), << >>)) : TRUE).img

InitLut ==
    /\ variant = "v1"
    /\ charSigned = FALSE
    /\ inFile = NoFile
    /\ pc = "boot"
    /\ img = NoImage
    /\ res = NoResult
    /\ outFile = NoFile
    /\ back = NoImage
    /\ status = "none"
    /\ lastOp = NoOp
    /\ luts_initialized = FALSE
    /\ lutsFilled = FALSE
    /\ \/ \E a \in LutPixels, b \in LutPixels :
             opnds = << OnePixel("v1", a), OnePixel("v1", b) >>
       \/ opnds = << EmptyImage, EmptyImage >>

BootFrame ==
    UNCHANGED <<variant, charSigned, inFile, img, res, outFile, back, status, lastOp, opnds>>

\* the constructor of _lut_bootstrap, run before main
LutBootstrap ==
    /\ pc = "boot"
    /\ luts_initialized' = init_luts.initialized
    /\ lutsFilled' = init_luts.filled
    /\ pc' = "ready"
    /\ BootFrame

\* main entered in a build from which the bootstrap object is stripped
NoBootstrap ==
    /\ pc = "boot"
    /\ pc' = "ready"
    /\ LutsUntouched
    /\ BootFrame

\* the next Blend::apply of the run, on the same operands
NextCall ==
    /\ pc = "computed"
    /\ pc' = "ready"
    /\ res' = NoResult
    /\ LutsUntouched
    /\ UNCHANGED <<variant, charSigned, inFile, img, outFile, back, status, lastOp, opnds>>

NextLut == LutBootstrap \/ NoBootstrap \/ Blend \/ NextCall

SpecLut == InitLut /\ [][NextLut]_vars

\* blendPixel has just read a table: a MULTIPLY or a SCREEN over at least one pixel
TableRead ==
    /\ pc = "computed" /\ lastOp.op = "blend" /\ lastOp.mode \in {"MULTIPLY", "SCREEN"}
    /\ Len(opnds[1].pixels) > 0

TablesRight ==
    /\ luts_initialized /\ lutsFilled
    /\ \A a \in LutSamples, b \in LutSamples :
          /\ multiply_lut(a, b) = (a * b + 127) \div 255
          /\ screen_lut(a, b) = 255 - ((255 - a) * (255 - b) + 127) \div 255

ReadRight ==
    \A i \in 1..Len(res[1].pixels) :
        res[1].pixels[i] =
            IF lastOp.mode = "MULTIPLY"
            THEN mul255_round(opnds[1].pixels[i], opnds[2].pixels[i])
            ELSE scr255_round(opnds[1].pixels[i], opnds[2].pixels[i])

\* C28: in every state in which blendPixel reads multiply_lut or screen_lut,
\* luts_initialized is true and the entries are mul255_round(a,b) and
\* scr255_round(a,b), whether or not the static bootstrap ran before the first
\* blendPixel call; init_luts is idempotent; once luts_initialized is true it
\* never becomes false and no table entry changes.
C28_LutInitialisation ==
    /\ [](TableRead => (TablesRight /\ ReadRight))
    /\ [](luts_initialized =>
            (lutsFilled /\ init_luts = [initialized |-> TRUE, filled |-> lutsFilled]))
    /\ [][luts_initialized => (luts_initialized' /\ lutsFilled' = lutsFilled)]_vars

C28_Witness ==
    /\ TableRead /\ lastOp.mode = "MULTIPLY" /\ luts_initialized /\ lutsFilled
    /\ opnds[1].pixels[1] = 127 /\ opnds[2].pixels[1] = 128 /\ res[1].pixels[1] = 64

====
